---- MODULE Spec2Model ----
(***************************************************************************)
(* A model of gtfs_kit/feed.py: the Feed container (attribute setters,     *)
(* derived indexes, copy, equality), the writer and the readers.           *)
(*                                                                         *)
(* Python objects live in a heap: a table attribute holds a reference to a *)
(* DataFrame object, so that an in-place mutation is a change of the heap  *)
(* seen through every reference, and a copy is a new object.               *)
(***************************************************************************)
EXTENDS Integers, Sequences, FiniteSets, TLC

VARIABLES
    feed,    \* feed[n]: the Feed object named n (attributes of the instance)
    heap,    \* heap[o]: the DataFrame object with identity o
    last,    \* the last operation applied and how it ended
    steps,   \* number of operations applied so far
    res,     \* what the last call of a function under study returned or raised
    fs,      \* the disk: fs[p] is what path p names
    scratch, \* the temporary directories that are on disk
    call     \* the last call of Feed.write or read_feed and how it ended



vars == <<feed, heap, last, steps, res, fs, scratch, call>>

-----------------------------------------------------------------------------
(* Bounds of the model *)

MaxRows == 1
MaxSteps == 3
MaxEqRows == 2
MaxIORows == 1
Decimals == 2
MaxReads == 2

-----------------------------------------------------------------------------
(* Values *)

None == <<>>
Some(x) == <<x>>
NoObj == 0

\* Cells: an integer, a float (in units of 10^-Decimals), a string (a
\* sequence of characters) or a missing value
Num(i) == [k |-> "int", v |-> i, s |-> <<>>]
Flt(v) == [k |-> "float", v |-> v, s |-> <<>>]
Str(s) == [k |-> "str", v |-> 0, s |-> s]
NaN == [k |-> "nan", v |-> 0, s |-> <<>>]

Range(s) == {s[i] : i \in DOMAIN s}

IndexOf(s, x) == CHOOSE i \in DOMAIN s : s[i] = x

RemoveAt(s, i) == [j \in 1..(Len(s) - 1) |-> IF j < i THEN s[j] ELSE s[j + 1]]

-----------------------------------------------------------------------------
(* The registry: table names, the allowed distance units *)

FeedNames == {"f", "g"}

IndexedSlots == {"trips", "calendar", "calendar_dates"}

Slots == IndexedSlots \cup {"stops"}

DIST_UNITS == {"ft", "mi", "m", "km"}

UnitInputs == {"km", "mi", "furlong"}

KeyCols(s) ==
    CASE s = "trips" -> <<"trip_id">>
      [] s = "calendar" -> <<"service_id">>
      [] s = "calendar_dates" -> <<"service_id", "date">>
      [] OTHER -> <<>>

-----------------------------------------------------------------------------
(* DataFrames *)

\* A test of emptiness that no frame passes
EmptyNever(t) == FALSE

\* DataFrame.empty: some axis has length 0
Empty(t) == Len(t.cols) = 0 \/ Len(t.rows) = 0

Column(t, c) == [i \in 1..Len(t.rows) |-> t.rows[i][IndexOf(t.cols, c)]]

\* df[c] = v, the in-place column assignment of the class docstring
SetColumn(t, c, v) ==
    IF c \in Range(t.cols)
    THEN [t EXCEPT !.rows =
            [i \in 1..Len(t.rows) |-> [t.rows[i] EXCEPT ![IndexOf(t.cols, c)] = v]]]
    ELSE [cols |-> Append(t.cols, c),
          rows |-> [i \in 1..Len(t.rows) |-> Append(t.rows[i], v)]]

\* df.drop(df.index, inplace=True)
DropRows(t) == [t EXCEPT !.rows = <<>>]

\* del df[c]
DropColumn(t, c) ==
    IF c \in Range(t.cols)
    THEN [cols |-> RemoveAt(t.cols, IndexOf(t.cols, c)),
          rows |-> [i \in 1..Len(t.rows) |-> RemoveAt(t.rows[i], IndexOf(t.cols, c))]]
    ELSE t

\* The tables the callers assign: n rows over the key columns of the slot and
\* a payload column x, or a table without the key columns.
KeyedTable(s, n) ==
    [cols |-> KeyCols(s) \o <<"x">>,
     rows |-> [i \in 1..n |-> [j \in 1..(Len(KeyCols(s)) + 1) |->
                                 IF j <= Len(KeyCols(s)) THEN Num(i) ELSE Num(1)]]]

KeylessTable(n) == [cols |-> <<"x">>, rows |-> [i \in 1..n |-> <<Num(1)>>]]

TableInputs(s) ==
    {KeyedTable(s, n) : n \in 0..MaxRows} \cup {KeylessTable(n) : n \in 1..MaxRows}

-----------------------------------------------------------------------------
(* The heap of DataFrame objects *)

Alloc(h) == CHOOSE o \in 1..(Cardinality(DOMAIN h) + 1) : o \notin DOMAIN h

New(h, t) == (Alloc(h) :> t) @@ h

\* The objects a Feed refers to: its tables and the frame its grouping holds
RefsOf(F) ==
    {F.tab[s] : s \in Slots}
        \cup {F.idx[s][1].obj : s \in {x \in {"calendar_dates"} : F.idx[x] # None}}

\* Objects no Feed refers to are reclaimed
Collect(fd, h) ==
    [o \in {x \in DOMAIN h : \E n \in FeedNames : x \in RefsOf(fd[n])} |-> h[o]]

-----------------------------------------------------------------------------
(* The Feed object *)

NoFeed ==
    [exists |-> FALSE,
     dist_units |-> "",
     tab |-> [s \in Slots |-> NoObj],
     idx |-> [s \in IndexedSlots |-> None]]

HasCols(t, cs) == Range(cs) \subseteq Range(t.cols)

\* DataFrame.set_index(c): a new frame, keyed by the values of column c
set_index(t, c) == [index |-> Column(t, c), frame |-> DropColumn(t, c)]

\* DataFrame.groupby(cs): the group keys are taken when the object is made,
\* the grouped frame is held by reference
groupby(h, o, cs) ==
    [obj |-> o,
     by |-> cs,
     keys |-> [i \in 1..Len(h[o].rows) |-> [j \in 1..Len(cs) |-> Column(h[o], cs[j])[i]]]]

\* Feed.dist_units.setter
DistUnitsSetter(F, val) ==
    IF val \notin DIST_UNITS
    THEN [F |-> F, err |-> "ValueError"]
    ELSE [F |-> [F EXCEPT !.dist_units = val], err |-> "none"]

\* Feed.trips.setter
TripsSetter(F, h, val) ==
    LET F1 == [F EXCEPT !.tab["trips"] = val] IN
    IF val # NoObj /\ ~Empty(h[val])
    THEN IF HasCols(h[val], <<"trip_id">>)
         THEN [F |-> [F1 EXCEPT !.idx["trips"] = Some(set_index(h[val], "trip_id"))],
               err |-> "none"]
         ELSE [F |-> F1, err |-> "KeyError"]
    ELSE [F |-> [F1 EXCEPT !.idx["trips"] = None], err |-> "none"]

\* Feed.calendar.setter
CalendarSetter(F, h, val) ==
    LET F1 == [F EXCEPT !.tab["calendar"] = val] IN
    IF val # NoObj /\ ~Empty(h[val])
    THEN IF HasCols(h[val], <<"service_id">>)
         THEN [F |-> [F1 EXCEPT !.idx["calendar"] = Some(set_index(h[val], "service_id"))],
               err |-> "none"]
         ELSE [F |-> F1, err |-> "KeyError"]
    ELSE [F |-> [F1 EXCEPT !.idx["calendar"] = None], err |-> "none"]

\* Feed.calendar_dates.setter
CalendarDatesSetter(F, h, val) ==
    LET F1 == [F EXCEPT !.tab["calendar_dates"] = val] IN
    IF val # NoObj /\ ~Empty(h[val])
    THEN IF HasCols(h[val], <<"service_id", "date">>)
         THEN [F |-> [F1 EXCEPT !.idx["calendar_dates"] =
                        Some(groupby(h, val, <<"service_id", "date">>))],
               err |-> "none"]
         ELSE [F |-> F1, err |-> "KeyError"]
    ELSE [F |-> [F1 EXCEPT !.idx["calendar_dates"] = None], err |-> "none"]

\* An assignment that also drops the derived index of every other table
SetTableClearing(F, h, s, val) ==
    LET r == CASE s = "trips" -> TripsSetter(F, h, val)
               [] s = "calendar" -> CalendarSetter(F, h, val)
               [] s = "calendar_dates" -> CalendarDatesSetter(F, h, val)
               [] OTHER -> [F |-> [F EXCEPT !.tab[s] = val], err |-> "none"]
    IN  [F |-> [r.F EXCEPT !.idx = [x \in IndexedSlots |->
                                      IF x = s THEN r.F.idx[x] ELSE None]],
         err |-> r.err]

\* setattr(feed, s, val) for a table attribute: the property setter when the
\* class defines one, a plain attribute otherwise
SetTable(F, h, s, val) ==
    CASE s = "trips" -> TripsSetter(F, h, val)
      [] s = "calendar" -> CalendarSetter(F, h, val)
      [] s = "calendar_dates" -> CalendarDatesSetter(F, h, val)
      [] OTHER -> [F |-> [F EXCEPT !.tab[s] = val], err |-> "none"]

\* The order of the parameters of __init__, which is the order of locals()
SlotOrder == <<"stops", "trips", "calendar", "calendar_dates">>

RECURSIVE InitTables(_, _, _, _)
InitTables(F, h, args, i) ==
    IF i > Len(SlotOrder)
    THEN [F |-> F, err |-> "none"]
    ELSE LET r == SetTable(F, h, SlotOrder[i], args[SlotOrder[i]]) IN
         IF r.err # "none" THEN r ELSE InitTables(r.F, h, args, i + 1)

\* Feed.__init__: dist_units first, then every table in parameter order; an
\* exception leaves no object
FeedInit(h, du, args) ==
    LET d == DistUnitsSetter([NoFeed EXCEPT !.exists = TRUE], du) IN
    IF d.err # "none"
    THEN [F |-> NoFeed, err |-> d.err]
    ELSE LET r == InitTables(d.F, h, args, 1) IN
         IF r.err # "none" THEN [F |-> NoFeed, err |-> r.err] ELSE r

NoArgs == [s \in Slots |-> NoObj]

-----------------------------------------------------------------------------
(* What a caller can observe of a Feed: values, not identities *)

TableView(h, o) == IF o = NoObj THEN None ELSE Some(h[o])

IndexView(h, s, x) ==
    IF x = None THEN None
    ELSE IF s = "calendar_dates"
         THEN Some([by |-> x[1].by, keys |-> x[1].keys, frame |-> h[x[1].obj]])
         ELSE x

FeedView(F, h) ==
    [exists |-> F.exists,
     dist_units |-> F.dist_units,
     tab |-> [s \in Slots |-> TableView(h, F.tab[s])],
     idx |-> [s \in IndexedSlots |-> IndexView(h, s, F.idx[s])]]

\* The index the setter of slot s builds from a table value
IndexOfValue(s, t) ==
    IF s = "calendar_dates"
    THEN [by |-> KeyCols(s),
          keys |-> [i \in 1..Len(t.rows) |->
                      [j \in 1..Len(KeyCols(s)) |-> Column(t, KeyCols(s)[j])[i]]],
          frame |-> t]
    ELSE set_index(t, KeyCols(s)[1])

-----------------------------------------------------------------------------
(* Feed.copy *)

\* A copy that hands back the same object instead of a new one
CopyFrameShared(h, o) == [h |-> h, o |-> o]

\* DataFrame.copy(): a new object with the same contents
CopyFrame(h, o) == [h |-> New(h, h[o]), o |-> Alloc(h)]

\* The duplicate of a derived attribute: DataFrame.copy() of an index frame,
\* deepcopy of a grouping (which clones the frame it holds), None as it is
CopyIndex(h, s, x) ==
    IF x = None THEN [h |-> h, x |-> None]
    ELSE IF s = "calendar_dates"
         THEN LET c == CopyFrame(h, x[1].obj) IN
              [h |-> c.h, x |-> Some([x[1] EXCEPT !.obj = c.o])]
         ELSE [h |-> h, x |-> x]

\* The two setattr calls of the loop that concern slot s: the table and, for
\* an indexed slot, its derived attribute, in the order the set yields them
CopySlot(G, h, F, s, tableFirst) ==
    LET c == IF F.tab[s] = NoObj THEN [h |-> h, o |-> NoObj] ELSE CopyFrame(h, F.tab[s]) IN
    IF s \notin IndexedSlots
    THEN [F |-> [G EXCEPT !.tab[s] = c.o], h |-> c.h, err |-> "none"]
    ELSE IF tableFirst
         THEN LET r == SetTable(G, c.h, s, c.o)
                  d == CopyIndex(c.h, s, F.idx[s])
              IN  IF r.err # "none"
                  THEN [F |-> r.F, h |-> c.h, err |-> r.err]
                  ELSE [F |-> [r.F EXCEPT !.idx[s] = d.x], h |-> d.h, err |-> "none"]
         ELSE LET d == CopyIndex(c.h, s, F.idx[s])
                  r == SetTable([G EXCEPT !.idx[s] = d.x], d.h, s, c.o)
              IN  [F |-> r.F, h |-> d.h, err |-> r.err]

RECURSIVE CopySlots(_, _, _, _, _)
CopySlots(G, h, F, order, i) ==
    IF i > Len(SlotOrder)
    THEN [F |-> G, h |-> h, err |-> "none"]
    ELSE LET r == CopySlot(G, h, F, SlotOrder[i],
                           SlotOrder[i] \in IndexedSlots /\ order[SlotOrder[i]])
         IN  IF r.err # "none" THEN r ELSE CopySlots(r.F, r.h, F, order, i + 1)

\* Feed.copy: order[s] says whether iterating set(FEED_ATTRS) yields the table
\* attribute of indexed slot s before its derived attribute
FeedCopy(F, h, order) ==
    LET other == FeedInit(h, F.dist_units, NoArgs).F
        r == CopySlots(other, h, F, order, 1)
    IN  IF r.err # "none" THEN [F |-> NoFeed, h |-> h, err |-> r.err] ELSE r

-----------------------------------------------------------------------------
(* The disk *)

\* Paths are a name and a suffix (Path.stem, Path.suffix)
OutDir == <<"out", "">>
OutZip == <<"out", ".zip">>
UrlPath == <<"http://host/feed", ".zip">>

Paths == {OutDir, OutZip, UrlPath}

\* What a path names: nothing, a directory, a zip archive, or a regular file
\* that is no archive
NoNode == [kind |-> "none", files |-> <<>>]
DirNode(files) == [kind |-> "dir", files |-> files]
ZipNode(files) == [kind |-> "zip", files |-> files]
JunkNode == [kind |-> "junk", files |-> <<>>]

Exists(node) == node.kind # "none"

IsFile(node) == node.kind \in {"zip", "junk"}

NoCall ==
    [op |-> "none", path |-> OutDir, du |-> "", ndigits |-> 0, head |-> "none",
     err |-> "none", log |-> <<>>]

-----------------------------------------------------------------------------
(* The operations of the container *)

NoRes == [fg |-> "unset", gf |-> "unset"]

Op(op, n, s, err) == [op |-> op, n |-> n, s |-> s, err |-> err]

TableArgs(s) == {None} \cup {Some(t) : t \in TableInputs(s)}

Init ==
    /\ feed = [n \in FeedNames |-> NoFeed]
    /\ heap = <<>>
    /\ last = Op("init", "f", "stops", "none")
    /\ steps = 0
    /\ res = NoRes
    /\ fs = [p \in Paths |-> NoNode]
    /\ scratch = <<>>
    /\ call = NoCall

\* f = Feed(dist_units=du, s=v)
Construct(du, s, v) ==
    /\ steps < MaxSteps
    /\ ~feed["f"].exists
    /\ LET h1 == IF v = None THEN heap ELSE New(heap, v[1])
           o == IF v = None THEN NoObj ELSE Alloc(heap)
           r == FeedInit(h1, du, [NoArgs EXCEPT ![s] = o])
       IN  /\ feed' = [feed EXCEPT !["f"] = r.F]
           /\ heap' = Collect(feed', h1)
           /\ last' = Op("construct", "f", s, r.err)
    /\ steps' = steps + 1

\* n.dist_units = du
AssignDistUnits(n, du) ==
    /\ steps < MaxSteps
    /\ feed[n].exists
    /\ LET r == DistUnitsSetter(feed[n], du) IN
           /\ feed' = [feed EXCEPT ![n] = r.F]
           /\ last' = Op("assign_dist_units", n, "stops", r.err)
    /\ heap' = heap
    /\ steps' = steps + 1

\* n.s = v, for a table made by the caller or None
AssignTable(n, s, v) ==
    /\ steps < MaxSteps
    /\ feed[n].exists
    /\ LET h1 == IF v = None THEN heap ELSE New(heap, v[1])
           o == IF v = None THEN NoObj ELSE Alloc(heap)
           r == SetTable(feed[n], h1, s, o)
       IN  /\ feed' = [feed EXCEPT ![n] = r.F]
           /\ heap' = Collect(feed', h1)
           /\ last' = Op("assign", n, s, r.err)
    /\ steps' = steps + 1

\* n.s = n.s
Reassign(n, s) ==
    /\ steps < MaxSteps
    /\ feed[n].exists
    /\ feed[n].tab[s] # NoObj
    /\ LET r == SetTable(feed[n], heap, s, feed[n].tab[s]) IN
           /\ feed' = [feed EXCEPT ![n] = r.F]
           /\ heap' = Collect(feed', heap)
           /\ last' = Op("reassign", n, s, r.err)
    /\ steps' = steps + 1

\* The in-place mutations a caller applies to the table object n.s
Mutations(s) ==
    {[m |-> "set", c |-> c, v |-> Num(2)] : c \in {"x"} \cup Range(KeyCols(s))}
        \cup {[m |-> "del", c |-> c, v |-> NaN] : c \in Range(KeyCols(s))}
        \cup {[m |-> "drop", c |-> "x", v |-> NaN]}

Mutated(t, m) ==
    CASE m.m = "set" -> SetColumn(t, m.c, m.v)
      [] m.m = "del" -> DropColumn(t, m.c)
      [] OTHER -> DropRows(t)

\* An in-place mutation of the table object n.s, with no assignment
MutateInPlace(n, s, m) ==
    /\ steps < MaxSteps
    /\ feed[n].exists
    /\ feed[n].tab[s] # NoObj
    /\ Mutated(heap[feed[n].tab[s]], m) # heap[feed[n].tab[s]]
    /\ heap' = [heap EXCEPT ![feed[n].tab[s]] = Mutated(@, m)]
    /\ feed' = feed
    /\ last' = Op("mutate", n, s, "none")
    /\ steps' = steps + 1

\* g = f.copy()
Copy(order) ==
    /\ steps < MaxSteps
    /\ feed["f"].exists
    /\ ~feed["g"].exists
    /\ LET r == FeedCopy(feed["f"], heap, order) IN
           /\ feed' = [feed EXCEPT !["g"] = r.F]
           /\ heap' = Collect(feed', r.h)
           /\ last' = Op("copy", "g", "stops", r.err)
    /\ steps' = steps + 1

CNext ==
    \/ \E du \in UnitInputs, s \in Slots : \E v \in TableArgs(s) : Construct(du, s, v)
    \/ \E n \in FeedNames, du \in UnitInputs : AssignDistUnits(n, du)
    \/ \E n \in FeedNames, s \in Slots : \E v \in TableArgs(s) : AssignTable(n, s, v)
    \/ \E n \in FeedNames, s \in Slots : Reassign(n, s)
    \/ \E n \in FeedNames, s \in Slots : \E m \in Mutations(s) : MutateInPlace(n, s, m)
    \/ \E order \in [IndexedSlots -> BOOLEAN] : Copy(order)

Next == CNext /\ UNCHANGED <<res, fs, scratch, call>>

Spec == Init /\ [][Next]_vars

-----------------------------------------------------------------------------
(* Feed.__eq__ *)

\* The order of column names and of cell values that sorting uses
ColNames == <<" stop_lat", "date", "direction_id", "service_id", "stop_id", "stop_lat", "trip_id", "x", "y">>

ColRank(c) == CHOOSE i \in DOMAIN ColNames : ColNames[i] = c

KindRank(k) == CASE k = "int" -> 1 [] k = "float" -> 2 [] k = "str" -> 3 [] OTHER -> 4

Alphabet == <<"-", ".", "0", "1", "2", "3", "4", "5", "6", "7", "8", "9", "a", "b">>

CharRank(c) == CHOOSE i \in DOMAIN Alphabet : Alphabet[i] = c

LessText(a, b) ==
    \/ \E i \in 1..Len(a) :
           /\ i <= Len(b)
           /\ \A j \in 1..(i - 1) : a[j] = b[j]
           /\ CharRank(a[i]) < CharRank(b[i])
    \/ Len(a) < Len(b) /\ \A j \in 1..Len(a) : a[j] = b[j]

LessCell(a, b) ==
    \/ KindRank(a.k) < KindRank(b.k)
    \/ KindRank(a.k) = KindRank(b.k) /\ a.v < b.v
    \/ KindRank(a.k) = KindRank(b.k) /\ a.v = b.v /\ LessText(a.s, b.s)

LessRow(r, q) ==
    \E i \in 1..Len(r) :
        /\ \A j \in 1..(i - 1) : r[j] = q[j]
        /\ LessCell(r[i], q[i])

\* sort_index(axis=1): the columns in the order of their names
SortColumns(t) ==
    LET n == Len(t.cols)
        at(k) == CHOOSE i \in 1..n :
                    Cardinality({j \in 1..n : ColRank(t.cols[j]) < ColRank(t.cols[i])}) = k - 1
    IN  [cols |-> [k \in 1..n |-> t.cols[at(k)]],
         rows |-> [r \in 1..Len(t.rows) |-> [k \in 1..n |-> t.rows[r][at(k)]]]]

\* sort_values over every column, then reset_index(drop=True)
SortRows(t) ==
    LET n == Len(t.rows)
        pos(i) == Cardinality({j \in 1..n : LessRow(t.rows[j], t.rows[i])})
                    + Cardinality({j \in 1..(i - 1) : t.rows[j] = t.rows[i]}) + 1
    IN  [t EXCEPT !.rows = [k \in 1..n |-> t.rows[CHOOSE i \in 1..n : pos(i) = k]]]

\* helpers.almost_equal: equality after putting rows and columns in
\* canonical order
almost_equal(f, g) == SortRows(SortColumns(f)) = SortRows(SortColumns(g))

\* The primary attributes, in the order the class lists them
FEED_ATTRS_1 == <<"dist_units">> \o SlotOrder

\* The loop body with DataFrame.equals in the place of almost_equal
EqStepExact(F, G, h, key) ==
    IF key = "dist_units"
    THEN IF F.dist_units # G.dist_units THEN "fail" ELSE "next"
    ELSE LET x == F.tab[key]
             y == G.tab[key]
         IN  IF x # NoObj
             THEN IF y = NoObj \/ h[x] # h[y] THEN "fail" ELSE "next"
             ELSE IF y # NoObj THEN "raise" ELSE "next"

\* One iteration of the loop of __eq__: "fail" for return False, "raise" when
\* the truth value of None != DataFrame is taken, "next" to go on
EqStep(F, G, h, key) ==
    IF key = "dist_units"
    THEN IF F.dist_units # G.dist_units THEN "fail" ELSE "next"
    ELSE LET x == F.tab[key]
             y == G.tab[key]
         IN  IF x # NoObj
             THEN IF y = NoObj \/ ~almost_equal(h[x], h[y]) THEN "fail" ELSE "next"
             ELSE IF y # NoObj THEN "raise" ELSE "next"

RECURSIVE EqFrom(_, _, _, _)
EqFrom(F, G, h, i) ==
    IF i > Len(FEED_ATTRS_1)
    THEN "True"
    ELSE LET r == EqStep(F, G, h, FEED_ATTRS_1[i]) IN
         IF r = "fail" THEN "False"
         ELSE IF r = "raise" THEN "ValueError"
         ELSE EqFrom(F, G, h, i + 1)

\* Feed.__eq__
FeedEq(F, G, h) == EqFrom(F, G, h, 1)

-----------------------------------------------------------------------------
(* Equality as a function of two feeds *)

EqUnits == {"km", "mi"}

EqRowValues == {<<Num(1), Num(2)>>, <<Num(2), Num(1)>>}

SeqsUpTo(S, n) == UNION {[1..k -> S] : k \in 0..n}

\* Tables over the columns x and y, in either column order
EqTables ==
    {[cols |-> c, rows |-> r] : c \in {<<"x", "y">>, <<"y", "x">>},
                                r \in SeqsUpTo(EqRowValues, MaxEqRows)}

EqTripsTables == {KeyedTable("trips", n) : n \in 0..1}

\* Feed(dist_units=du, stops=a, trips=b) on heap h
MakeFeed(h, du, a, b) ==
    LET h1 == IF a = None THEN h ELSE New(h, a[1])
        oa == IF a = None THEN NoObj ELSE Alloc(h)
        h2 == IF b = None THEN h1 ELSE New(h1, b[1])
        ob == IF b = None THEN NoObj ELSE Alloc(h1)
    IN  [F |-> FeedInit(h2, du, [NoArgs EXCEPT !["stops"] = oa, !["trips"] = ob]).F,
         h |-> h2]

InitEq ==
    \E du1 \in EqUnits, du2 \in EqUnits :
    \E a1 \in {None} \cup {Some(t) : t \in EqTables}, a2 \in {None} \cup {Some(t) : t \in EqTables} :
    \E b1 \in {None} \cup {Some(t) : t \in EqTripsTables},
       b2 \in {None} \cup {Some(t) : t \in EqTripsTables} :
        LET m1 == MakeFeed(<<>>, du1, a1, b1)
            m2 == MakeFeed(m1.h, du2, a2, b2)
        IN  /\ feed = [n \in FeedNames |-> IF n = "f" THEN m1.F ELSE m2.F]
            /\ heap = m2.h
            /\ last = Op("init", "f", "stops", "none")
            /\ steps = 0
            /\ res = NoRes
            /\ fs = [p \in Paths |-> NoNode]
            /\ scratch = <<>>
            /\ call = NoCall

\* f == g and g == f
Compare ==
    /\ res = NoRes
    /\ res' = [fg |-> FeedEq(feed["f"], feed["g"], heap),
               gf |-> FeedEq(feed["g"], feed["f"], heap)]
    /\ last' = Op("compare", "f", "stops", "none")
    /\ UNCHANGED <<feed, heap, steps, fs, scratch, call>>

\* n.trips["x"] = 2 before the comparison: the trip index of n goes stale
EqMutate(n) ==
    /\ res = NoRes
    /\ MutateInPlace(n, "trips", [m |-> "set", c |-> "x", v |-> Num(2)])
    /\ UNCHANGED <<res, fs, scratch, call>>

\* n.trips = n.trips before the comparison: the trip index of n is rebuilt
EqReassign(n) ==
    /\ res = NoRes
    /\ last.op = "mutate"
    /\ Reassign(n, "trips")
    /\ UNCHANGED <<res, fs, scratch, call>>

NextEq ==
    \/ \E n \in FeedNames : EqMutate(n)
    \/ \E n \in FeedNames : EqReassign(n)
    \/ Compare

SpecEq == InitEq /\ [][NextEq]_vars

-----------------------------------------------------------------------------
(* Text of cells: what to_csv writes and what read_csv reads *)

RECURSIVE Pow10(_)
Pow10(n) == IF n = 0 THEN 1 ELSE 10 * Pow10(n - 1)

Abs(i) == IF i < 0 THEN -i ELSE i

Digit(d) == Alphabet[d + 3]

IsDigit(c) == CharRank(c) \in 3..12

DigitValue(c) == CharRank(c) - 3

\* The decimal text of a natural number
RECURSIVE NatText(_)
NatText(n) == IF n < 10 THEN <<Digit(n)>> ELSE Append(NatText(n \div 10), Digit(n % 10))

\* str(i) of an integer
IntText(i) == IF i < 0 THEN <<"-">> \o NatText(-i) ELSE NatText(i)

RECURSIVE ZeroPad(_, _)
ZeroPad(t, n) == IF Len(t) >= n THEN t ELSE ZeroPad(<<"0">> \o t, n)

\* a / m rounded to the nearest integer, ties to even
RoundDiv(a, m) ==
    LET q == a \div m
        r == a % m
    IN  IF 2 * r > m \/ (2 * r = m /\ q % 2 = 1) THEN q + 1 ELSE q

\* "%.{ndigits}f" % x for the float of v units of 10^-Decimals
FormatFloat(v, ndigits) ==
    LET q == RoundDiv(Abs(v), Pow10(Decimals - ndigits))
        whole == NatText(q \div Pow10(ndigits))
        frac == IF ndigits = 0 THEN <<>>
                ELSE <<".">> \o ZeroPad(NatText(q % Pow10(ndigits)), ndigits)
    IN  (IF v < 0 THEN <<"-">> ELSE <<>>) \o whole \o frac

RECURSIVE TextNat(_)
TextNat(t) ==
    IF Len(t) = 0 THEN 0
    ELSE 10 * TextNat(SubSeq(t, 1, Len(t) - 1)) + DigitValue(t[Len(t)])

AllDigits(t) == Len(t) > 0 /\ \A i \in 1..Len(t) : IsDigit(t[i])

Unsigned(t) == IF Len(t) > 0 /\ t[1] = "-" THEN Tail(t) ELSE t

Sign(t) == IF Len(t) > 0 /\ t[1] = "-" THEN -1 ELSE 1

IsIntText(t) == AllDigits(Unsigned(t))

DotAt(t) == {i \in 1..Len(t) : t[i] = "."}

IsFloatText(t) ==
    LET u == Unsigned(t) IN
    \E i \in DotAt(u) :
        /\ AllDigits(SubSeq(u, 1, i - 1))
        /\ AllDigits(SubSeq(u, i + 1, Len(u)))
        /\ Len(u) - i <= Decimals

\* The number a numeric text denotes, in units of 10^-Decimals
TextValue(t) ==
    LET u == Unsigned(t) IN
    IF IsIntText(t)
    THEN Sign(t) * TextNat(u) * Pow10(Decimals)
    ELSE LET i == CHOOSE j \in DotAt(u) : TRUE IN
         Sign(t) * (TextNat(SubSeq(u, 1, i - 1)) * Pow10(Decimals)
                      + TextNat(SubSeq(u, i + 1, Len(u))) * Pow10(Decimals - (Len(u) - i)))

\* The registry: the columns read as strings, the columns written as integers
STR_COLS == {"trip_id", "service_id", "date", "stop_id"}

INT_COLS == {"direction_id"}

\* The text and missing-value of a cell of a column that is not in INT_COLS,
\* as to_csv writes it with float_format
PlainText(cell, ndigits) ==
    CASE cell.k = "int" -> IntText(cell.v)
      [] cell.k = "float" -> FormatFloat(cell.v, ndigits)
      [] cell.k = "str" -> cell.s
      [] OTHER -> <<>>

\* int(x) of a number: truncation towards zero
Truncate(cell) ==
    IF cell.k = "float"
    THEN (IF cell.v < 0 THEN -1 ELSE 1) * (Abs(cell.v) \div Pow10(Decimals))
    ELSE cell.v

\* The coercion without the last step that turns the sentinel back into ""
IntColTextKeepsSentinel(cell) ==
    IntText(IF cell.k = "nan" THEN -1 ELSE Truncate(cell))

\* f[s].fillna(-1).astype(int).astype(str).replace("-1", ""), cell by cell
IntColText(cell) ==
    LET filled == IF cell.k = "nan" THEN -1 ELSE Truncate(cell)
        text == IntText(filled)
    IN  IF text = <<"-", "1">> THEN <<>> ELSE text

\* The frame after the loop over f_int_cols: the cells of every
\* integer-flagged column are the strings of the coercion
Coerced(t) ==
    [cols |-> t.cols,
     rows |-> [i \in 1..Len(t.rows) |->
                 [j \in 1..Len(t.cols) |->
                    IF t.cols[j] \in INT_COLS
                    THEN Str(IntColText(t.rows[i][j]))
                    ELSE t.rows[i][j]]]]

\* DataFrame.to_csv(index=False, float_format=...): a header and text lines
ToCsvText(t, ndigits) ==
    [fmt |-> "csv",
     header |-> t.cols,
     lines |-> [i \in 1..Len(t.rows) |->
                  [j \in 1..Len(t.cols) |-> PlainText(t.rows[i][j], ndigits)]]]

\* The file Feed.write makes of a table: coercion, then to_csv
ToCsv(t, ndigits) == ToCsvText(Coerced(t), ndigits)

\* The cells read_csv makes of the texts of one column: strings for a column
\* of DTYPE, else integers if every text is one, else floats if every text is
\* a number or empty, else strings; an empty text is a missing value
ParseColumn(c, texts) ==
    LET asStr == [i \in DOMAIN texts |-> IF texts[i] = <<>> THEN NaN ELSE Str(texts[i])] IN
    IF c \in STR_COLS THEN asStr
    ELSE IF \A i \in DOMAIN texts : IsIntText(texts[i])
         THEN [i \in DOMAIN texts |-> Num(TextValue(texts[i]) \div Pow10(Decimals))]
    ELSE IF \A i \in DOMAIN texts :
                texts[i] = <<>> \/ IsIntText(texts[i]) \/ IsFloatText(texts[i])
         THEN [i \in DOMAIN texts |->
                 IF texts[i] = <<>> THEN NaN ELSE Flt(TextValue(texts[i]))]
    ELSE asStr

\* cleaners.clean_column_names: surrounding whitespace is trimmed
StripName(c) == IF c = " stop_lat" THEN "stop_lat" ELSE c

clean_column_names(t) == [t EXCEPT !.cols = [j \in DOMAIN t.cols |-> StripName(t.cols[j])]]

\* pd.read_csv(p, dtype=cs.DTYPE): the table of a well-formed file
ReadCsv(file) ==
    LET n == Len(file.header)
        col(j) == ParseColumn(file.header[j],
                              [i \in 1..Len(file.lines) |-> file.lines[i][j]])
    IN  [cols |-> file.header,
         rows |-> [i \in 1..Len(file.lines) |-> [j \in 1..n |-> col(j)[i]]]]

\* read_csv raises on a file with no columns and on a malformed file
CsvFails(file) == file.fmt # "csv" \/ Len(file.header) = 0

-----------------------------------------------------------------------------
(* Feed.write *)

TableFile(s) == <<s, ".txt">>

\* Overwrite or add one file of a directory
PutFile(files, name, data) ==
    [x \in DOMAIN files \cup {name} |-> IF x = name THEN data ELSE files[x]]

\* A write that coerces the columns of the table object itself
WriteInPlace(h, o) == [h |-> h, o |-> o]

\* f = f.copy(): the frame that is coerced and written
WriteCopy(h, o) == CopyFrame(h, o)

\* One pass of the loop for a table that is not None: the copy, the coercion
\* of its integer-flagged columns, the file <table>.txt
WriteOne(files, h, o, s, ndigits) ==
    LET c == WriteCopy(h, o)
        h1 == [c.h EXCEPT ![c.o] = Coerced(@)]
    IN  [files |-> PutFile(files, TableFile(s), ToCsvText(h1[c.o], ndigits)), h |-> h1]

\* The loop over the registry tables: every table that is not None is
\* written to <table>.txt
RECURSIVE WriteTables(_, _, _, _, _)
WriteTables(files, F, h, ndigits, i) ==
    IF i > Len(SlotOrder)
    THEN [files |-> files, h |-> h]
    ELSE LET s == SlotOrder[i] IN
         IF F.tab[s] = NoObj
         THEN WriteTables(files, F, h, ndigits, i + 1)
         ELSE LET w == WriteOne(files, h, F.tab[s], s, ndigits) IN
              WriteTables(w.files, F, w.h, ndigits, i + 1)

\* The first table of the loop that is not None
FirstTable(F) ==
    SlotOrder[CHOOSE i \in DOMAIN SlotOrder :
                 /\ F.tab[SlotOrder[i]] # NoObj
                 /\ \A j \in 1..(i - 1) : F.tab[SlotOrder[j]] = NoObj]

\* tempfile.TemporaryDirectory(): a new, empty directory
AllocScratch(sc) == CHOOSE t \in 1..(Cardinality(DOMAIN sc) + 1) : t \notin DOMAIN sc

Without(sc, t) == [x \in DOMAIN sc \ {t} |-> sc[x]]

\* Feed.write(path, ndigits): the disk and the scratch directories after the
\* call, and the exception if one is raised
FeedWrite(F, h, disk, sc, path, ndigits) ==
    IF path[2] = ".zip"
    THEN \* written to a temporary directory, archived, and the directory removed
         LET w == WriteTables(<<>>, F, h, ndigits, 1) IN
         [fs |-> [disk EXCEPT ![path] = ZipNode(w.files)],
          scratch |-> sc,
          h |-> w.h,
          err |-> "none"]
    ELSE IF IsFile(disk[path])
         THEN \* to_csv cannot open a file below a regular file
              IF \E s \in Slots : F.tab[s] # NoObj
              THEN [fs |-> disk,
                    scratch |-> sc,
                    h |-> WriteOne(<<>>, h, F.tab[FirstTable(F)], FirstTable(F), ndigits).h,
                    err |-> "OSError"]
              ELSE [fs |-> disk, scratch |-> sc, h |-> h, err |-> "none"]
         ELSE LET w == WriteTables(disk[path].files, F, h, ndigits, 1) IN
              [fs |-> [disk EXCEPT ![path] = DirNode(w.files)],
               scratch |-> sc,
               h |-> w.h,
               err |-> "none"]

-----------------------------------------------------------------------------
(* _read_feed_from_path, _read_feed_from_url, read_feed *)

\* The condition without the test of the size
IsTableFileAnySize(files, name) ==
    /\ files[name].fmt # "dir"
    /\ name[2] = ".txt"
    /\ name[1] \in Slots

\* The condition under which an entry of the directory is read
IsTableFile(files, name) ==
    /\ files[name].fmt # "dir"
    /\ files[name].fmt # "empty"
    /\ name[2] = ".txt"
    /\ name[1] \in Slots

\* The tables of feed_dict are made objects of the heap, slot by slot
RECURSIVE LoadTables(_, _, _, _)
LoadTables(files, h, args, i) ==
    IF i > Len(SlotOrder)
    THEN [h |-> h, args |-> args]
    ELSE LET s == SlotOrder[i]
             name == TableFile(s)
             read == name \in DOMAIN files /\ IsTableFile(files, name)
                        /\ ~Empty(ReadCsv(files[name]))
         IN  IF read
             THEN LoadTables(files, New(h, clean_column_names(ReadCsv(files[name]))),
                             [args EXCEPT ![s] = Alloc(h)], i + 1)
             ELSE LoadTables(files, h, args, i + 1)

\* _read_feed_from_path on what the path names
ReadFeedFromNode(node, sc, h, du) ==
    IF ~Exists(node)
    THEN [F |-> NoFeed, h |-> h, scratch |-> sc, err |-> "PathError", log |-> <<>>]
    ELSE LET zipped == IsFile(node)
             t == AllocScratch(sc)
             made == IF zipped THEN <<[ev |-> "mkdtemp", t |-> t]>> ELSE <<>>
             \* the directory as unpack_archive leaves it when it raises
             sc1 == IF zipped THEN (t :> <<>>) @@ sc ELSE sc
             \* the directory after a successful unpack_archive
             sc2 == IF zipped THEN (t :> node.files) @@ sc ELSE sc
             files == node.files
         IN  IF node.kind = "junk"
             THEN [F |-> NoFeed, h |-> h, scratch |-> sc1, err |-> "ReadError", log |-> made]
             ELSE IF \E name \in DOMAIN files : IsTableFile(files, name) /\ CsvFails(files[name])
             THEN [F |-> NoFeed, h |-> h, scratch |-> sc2, err |-> "ParseError", log |-> made]
             ELSE LET l == LoadTables(files, h, NoArgs, 1)
                      r == FeedInit(l.h, du, l.args)
                      done == IF zipped THEN Append(made, [ev |-> "cleanup", t |-> t]) ELSE made
                  IN  [F |-> r.F, h |-> l.h, scratch |-> sc, err |-> r.err, log |-> done]

\* What requests.head and requests.get can do
HeadOutcomes == {"ok", "bad", "raise"}

\* A string without a URL scheme makes requests raise
IsUrl(path) == path = UrlPath

\* The contents a download can have
Downloads == {JunkNode, ZipNode(<<>>)}

\* A resolution that probes a URL before it looks at the disk
ReadFeedProbeFirst(disk, sc, h, path, du, head, got) ==
    LET probed == <<[ev |-> "head", t |-> 0]>>
        checked == Append(probed, [ev |-> "exists", t |-> 0])
    IN  IF IsUrl(path) /\ head = "ok"
        THEN LET fetched == Append(probed, [ev |-> "get", t |-> 0]) IN
             IF ~Exists(got)
             THEN [F |-> NoFeed, h |-> h, scratch |-> sc, err |-> "TransportError",
                   log |-> fetched]
             ELSE LET r == ReadFeedFromNode(got, sc, h, du) IN
                  [r EXCEPT !.log = fetched \o r.log]
        ELSE IF Exists(disk[path])
        THEN LET r == ReadFeedFromNode(disk[path], sc, h, du) IN
             [r EXCEPT !.log = checked \o r.log]
        ELSE [F |-> NoFeed, h |-> h, scratch |-> sc, err |-> "LocationError", log |-> checked]

\* read_feed(path_or_url, dist_units): head is what requests.head does,
\* got is what requests.get returns (NoNode when it raises)
ReadFeed(disk, sc, h, path, du, head, got) ==
    LET checked == <<[ev |-> "exists", t |-> 0]>> IN
    IF Exists(disk[path])
    THEN LET r == ReadFeedFromNode(disk[path], sc, h, du) IN
         [r EXCEPT !.log = checked \o r.log]
    ELSE LET probed == Append(checked, [ev |-> "head", t |-> 0]) IN
         IF head = "raise" \/ ~IsUrl(path)
         THEN [F |-> NoFeed, h |-> h, scratch |-> sc, err |-> "TransportError", log |-> probed]
         ELSE IF head = "ok"
         THEN LET fetched == Append(probed, [ev |-> "get", t |-> 0]) IN
              IF ~Exists(got)
              THEN [F |-> NoFeed, h |-> h, scratch |-> sc, err |-> "TransportError",
                    log |-> fetched]
              ELSE LET r == ReadFeedFromNode(got, sc, h, du) IN
                   [r EXCEPT !.log = fetched \o r.log]
         ELSE [F |-> NoFeed, h |-> h, scratch |-> sc, err |-> "LocationError", log |-> probed]

-----------------------------------------------------------------------------
(* Writing a feed and loading it back *)

NDigitInputs == {0, 1, 2}

TripIdCells == {Str(<<"a">>), Num(1)}

\* direction_id is an integer-flagged column: an integer column, or a float
\* column when it has gaps
IntRows == {<<a, b>> : a \in TripIdCells, b \in {Num(0), Num(-1)}}
FloatRows == {<<a, b>> : a \in TripIdCells, b \in {Flt(Pow10(Decimals)), Flt(15 * Pow10(Decimals - 1)), NaN}}

IOTripsTables ==
    {[cols |-> <<"trip_id", "direction_id">>, rows |-> r] :
        r \in SeqsUpTo(IntRows, MaxIORows) \cup SeqsUpTo(FloatRows, MaxIORows)}

StopRows == {<<Str(<<"b">>), b>> : b \in {Flt(15 * Pow10(Decimals - 1)), Flt(124 * Pow10(Decimals - 2)), NaN}}

IOStopsTables ==
    {[cols |-> c, rows |-> r] :
        c \in {<<"stop_id", "stop_lat">>, <<"stop_id", " stop_lat">>},
        r \in SeqsUpTo(StopRows, MaxIORows)}
        \cup {[cols |-> <<>>, rows |-> <<>>]}

\* A stops.txt left in the destination by an earlier write
StaleStops ==
    ToCsv([cols |-> <<"stop_id", "stop_lat">>,
           rows |-> <<<<Str(<<"b">>), Flt(15 * Pow10(Decimals - 1))>>>>], 2)

InitialDisks ==
    {[p \in Paths |-> IF p = OutDir THEN n ELSE NoNode] :
        n \in {NoNode, DirNode(<<>>), DirNode(TableFile("stops") :> StaleStops), JunkNode}}

InitRT ==
    \E du \in EqUnits :
    \E a \in {None} \cup {Some(t) : t \in IOStopsTables} :
    \E b \in {None} \cup {Some(t) : t \in IOTripsTables} :
    \E disk \in InitialDisks :
        LET m == MakeFeed(<<>>, du, a, b) IN
            /\ feed = [n \in FeedNames |-> IF n = "f" THEN m.F ELSE NoFeed]
            /\ heap = m.h
            /\ last = Op("init", "f", "stops", "none")
            /\ steps = 0
            /\ res = NoRes
            /\ fs = disk
            /\ scratch = <<>>
            /\ call = NoCall

\* f.write(path, ndigits); the copies the call made are reclaimed
WriteFeed(path, ndigits) ==
    /\ call.op = "none"
    /\ LET r == FeedWrite(feed["f"], heap, fs, scratch, path, ndigits) IN
           /\ fs' = r.fs
           /\ scratch' = r.scratch
           /\ call' = [op |-> "write", path |-> path, du |-> feed["f"].dist_units,
                       ndigits |-> ndigits, head |-> "none", err |-> r.err,
                       log |-> <<>>]
           /\ heap' = Collect(feed, r.h)
    /\ UNCHANGED <<feed, last, steps, res>>

\* g = read_feed(path, f.dist_units), for the path just written
LoadBack ==
    /\ call.op = "write"
    /\ call.err = "none"
    /\ LET r == ReadFeed(fs, scratch, heap, call.path, call.du, "raise", NoNode) IN
           /\ feed' = [feed EXCEPT !["g"] = r.F]
           /\ heap' = Collect(feed', r.h)
           /\ scratch' = r.scratch
           /\ call' = [call EXCEPT !.op = "load", !.err = r.err, !.log = r.log]
    /\ UNCHANGED <<fs, last, steps, res>>

NextRT ==
    \/ \E path \in {OutDir, OutZip}, ndigits \in NDigitInputs : WriteFeed(path, ndigits)
    \/ LoadBack

SpecRT == InitRT /\ [][NextRT]_vars

-----------------------------------------------------------------------------
(* Calls of read_feed *)

GoodFiles ==
    (TableFile("stops") :> StaleStops) @@ (<<"notes", ".txt">> :> StaleStops)

\* A trips.txt that read_csv cannot parse
BadFiles ==
    (TableFile("trips") :> [fmt |-> "csv", header |-> <<>>, lines |-> <<>>])

\* Entries the loader skips: a directory, a file of size zero, a file with
\* another suffix (notes.txt of GoodFiles has a stem that is no table)
SkippedFiles ==
    (TableFile("calendar") :> [fmt |-> "dir", header |-> <<>>, lines |-> <<>>])
        @@ (TableFile("trips") :> [fmt |-> "empty", header |-> <<>>, lines |-> <<>>])
        @@ (<<"stops", ".csv">> :> StaleStops)

\* A bundle with a header-only trips.txt next to tables with rows
IndexedFiles ==
    (TableFile("trips") :> ToCsv(KeyedTable("trips", 0), 2))
        @@ (TableFile("calendar") :> ToCsv(KeyedTable("calendar", 1), 2))
        @@ (TableFile("calendar_dates") :> ToCsv(KeyedTable("calendar_dates", 1), 2))
        @@ GoodFiles

\* A bundle whose trips.txt has rows and no trip_id column
KeylessFiles == (TableFile("trips") :> ToCsv(KeylessTable(1), 2))

ReadDisks ==
    {[p \in Paths |-> IF p = OutDir THEN d ELSE IF p = OutZip THEN z ELSE u] :
        d \in {NoNode, DirNode(GoodFiles), DirNode(BadFiles), DirNode(GoodFiles @@ SkippedFiles),
               DirNode(KeylessFiles)},
        z \in {NoNode, JunkNode, ZipNode(GoodFiles), ZipNode(BadFiles),
               ZipNode(BadFiles @@ SkippedFiles)},
        u \in {NoNode, ZipNode(GoodFiles), ZipNode(IndexedFiles)}}

InitRead ==
    \E disk \in ReadDisks :
        /\ feed = [n \in FeedNames |-> NoFeed]
        /\ heap = <<>>
        /\ last = Op("init", "f", "stops", "none")
        /\ steps = 0
        /\ res = NoRes
        /\ fs = disk
        /\ scratch = <<>>
        /\ call = NoCall

\* f = read_feed(path, du); f keeps its value when the call raises. A string
\* that is no URL makes the probe raise, and only a probe that reported
\* success is followed by a download.
ReadFeedCall(path, du, head, got) ==
    /\ steps < MaxReads
    /\ IsUrl(path) \/ head = "raise"
    /\ (IsUrl(path) /\ head = "ok") \/ got = NoNode
    /\ LET r == ReadFeed(fs, scratch, heap, path, du, head, got) IN
           /\ feed' = IF r.err = "none" THEN [feed EXCEPT !["f"] = r.F] ELSE feed
           /\ heap' = Collect(feed', r.h)
           /\ scratch' = r.scratch
           /\ call' = [op |-> "read", path |-> path, du |-> du, ndigits |-> 0,
                       head |-> head, err |-> r.err, log |-> r.log]
    /\ steps' = steps + 1
    /\ UNCHANGED <<fs, last, res>>

\* The finalizer of a TemporaryDirectory that was not cleaned up, run when
\* the object is collected
Finalize(t) ==
    /\ call.op = "read"
    /\ t \in DOMAIN scratch
    /\ scratch' = Without(scratch, t)
    /\ call' = [call EXCEPT !.op = "finalize"]
    /\ UNCHANGED <<feed, heap, last, steps, res, fs>>

NextRead ==
    \/ \E path \in Paths, du \in UnitInputs, head \in HeadOutcomes,
          got \in Downloads \cup {NoNode} : ReadFeedCall(path, du, head, got)
    \/ \E t \in DOMAIN scratch : Finalize(t)

SpecRead == InitRead /\ [][NextRead]_vars

-----------------------------------------------------------------------------
(* list_feed *)

\* The entry "./" that an archive of a directory can hold
RootEntry == <<"./", "">>

\* Path.name, ZipInfo.filename
FileName(name) == name[1] \o name[2]

RECURSIVE SumLen(_, _)
SumLen(texts, i) == IF i > Len(texts) THEN 0 ELSE Len(texts[i]) + SumLen(texts, i + 1)

\* The bytes of one line: the texts, the commas between them, the newline
LineSize(texts) == IF Len(texts) = 0 THEN 1 ELSE SumLen(texts, 1) + Len(texts)

RECURSIVE LinesSize(_, _)
LinesSize(lines, i) ==
    IF i > Len(lines) THEN 0 ELSE LineSize(lines[i]) + LinesSize(lines, i + 1)

\* stat().st_size of a file, ZipInfo.file_size of an archive member
FileSize(file) ==
    IF file.fmt # "csv" THEN 0 ELSE LineSize(file.header) + LinesSize(file.lines, 1)

\* The orders in which iterdir() or infolist() can yield the entries
Orders(S) == {q \in [1..Cardinality(S) -> S] : Range(q) = S}

ListRow(files, name) == [file_name |-> FileName(name), file_size |-> FileSize(files[name])]

\* A listing that does not pass over the entry "./"
ListFeedWithRoot(disk, path, order) ==
    IF ~Exists(disk[path])
    THEN [rows |-> <<>>, err |-> "PathError"]
    ELSE IF disk[path].kind = "junk"
    THEN [rows |-> <<>>, err |-> "BadZipFile"]
    ELSE [rows |-> [i \in 1..Len(order) |-> ListRow(disk[path].files, order[i])],
          err |-> "none"]

\* list_feed(path): the rows of the DataFrame, or the exception
ListFeed(disk, path, order) ==
    IF ~Exists(disk[path])
    THEN [rows |-> <<>>, err |-> "PathError"]
    ELSE IF disk[path].kind = "junk"
    THEN [rows |-> <<>>, err |-> "BadZipFile"]
    ELSE LET kept == SelectSeq(order, LAMBDA name : ~(IsFile(disk[path]) /\ name = RootEntry))
         IN  [rows |-> [i \in 1..Len(kept) |-> ListRow(disk[path].files, kept[i])],
              err |-> "none"]

TripsFiles == (TableFile("trips") :> ToCsv(KeyedTable("trips", 1), 2))

RootFiles == (RootEntry :> [fmt |-> "dir", header |-> <<>>, lines |-> <<>>])

ListNodes ==
    {NoNode, JunkNode, DirNode(<<>>), ZipNode(<<>>)}
        \cup {DirNode(f) : f \in {GoodFiles, TripsFiles}}
        \cup {ZipNode(f) : f \in {GoodFiles, TripsFiles, GoodFiles @@ RootFiles}}

InitList ==
    \E d \in ListNodes, z \in ListNodes :
        /\ feed = [n \in FeedNames |-> NoFeed]
        /\ heap = <<>>
        /\ last = Op("init", "f", "stops", "none")
        /\ steps = 0
        /\ res = NoRes
        /\ fs = [p \in Paths |-> IF p = OutDir THEN d ELSE IF p = OutZip THEN z ELSE NoNode]
        /\ scratch = <<>>
        /\ call = NoCall

\* list_feed(path), the entries being yielded in the given order
ListFeedCall(path, order) ==
    /\ steps < MaxReads
    /\ LET r == ListFeed(fs, path, order) IN
           call' = [op |-> "list", path |-> path, du |-> "", ndigits |-> 0,
                    head |-> "none", err |-> r.err, log |-> r.rows]
    /\ steps' = steps + 1
    /\ UNCHANGED <<feed, heap, last, res, fs, scratch>>

NextList ==
    \E path \in Paths : \E order \in Orders(DOMAIN fs[path].files) : ListFeedCall(path, order)

SpecList == InitList /\ [][NextList]_vars

-----------------------------------------------------------------------------
(* Feed.__str__ *)

HeadRows == 5

\* DataFrame.head(5)
head(t) ==
    [cols |-> t.cols,
     rows |-> SubSeq(t.rows, 1, IF Len(t.rows) < HeadRows THEN Len(t.rows) ELSE HeadRows)]

\* getattr(self, table).head(5): None has no attribute head
TableHead(F, h, s) ==
    IF F.tab[s] = NoObj
    THEN [err |-> "AttributeError", v |-> None]
    ELSE [err |-> "none", v |-> Some(head(h[F.tab[s]]))]

\* The entry of a table without the try statement around it
DescribeEntryNoTry(F, h, s) == TableHead(F, h, s)

\* try: d[table] = getattr(self, table).head(5); except: d[table] = None
DescribeEntry(F, h, s) ==
    LET r == TableHead(F, h, s) IN
    IF r.err # "none" THEN [err |-> "none", v |-> None] ELSE r

\* Feed.__str__: the dictionary d that is printed, or the exception
FeedStr(F, h) ==
    IF \E s \in Slots : DescribeEntry(F, h, s).err # "none"
    THEN [err |-> "AttributeError", d |-> <<>>]
    ELSE [err |-> "none",
          d |-> [tab |-> [s \in Slots |-> DescribeEntry(F, h, s).v],
                 dist_units |-> F.dist_units]]

StrTables(s) == {None} \cup {Some(KeyedTable(s, n)) : n \in 0..MaxRows}

InitStr ==
    \E du \in EqUnits, a \in StrTables("stops"), b \in StrTables("trips") :
        LET m == MakeFeed(<<>>, du, a, b) IN
            /\ feed = [x \in FeedNames |-> IF x = "f" THEN m.F ELSE NoFeed]
            /\ heap = m.h
            /\ last = Op("init", "f", "stops", "none")
            /\ steps = 0
            /\ res = NoRes
            /\ fs = [p \in Paths |-> NoNode]
            /\ scratch = <<>>
            /\ call = NoCall

\* One in-place mutation of a table of f before it is described
StrMutate(s, m) ==
    /\ call.op = "none"
    /\ last.op = "init"
    /\ MutateInPlace("f", s, m)
    /\ UNCHANGED <<res, fs, scratch, call>>

\* str(f)
Describe ==
    /\ call.op = "none"
    /\ feed["f"].exists
    /\ LET r == FeedStr(feed["f"], heap) IN
           call' = [op |-> "describe", path |-> OutDir, du |-> "", ndigits |-> 0,
                    head |-> "none", err |-> r.err, log |-> r.d]
    /\ UNCHANGED <<feed, heap, last, steps, res, fs, scratch>>

NextStr ==
    \/ \E s \in Slots : \E m \in Mutations(s) : StrMutate(s, m)
    \/ Describe

SpecStr == InitStr /\ [][NextStr]_vars

-----------------------------------------------------------------------------
(* Claims about the container *)

\* The derived index of slot s is the one its setter builds from the table
\* the slot holds now: absent when the table is absent or empty
IndexConsistent(F, h, s) ==
    LET t == TableView(h, F.tab[s]) IN
    /\ (F.idx[s] # None) <=> (t # None /\ ~Empty(t[1]))
    /\ F.idx[s] # None => HasCols(t[1], KeyCols(s))
    /\ F.idx[s] # None => IndexView(h, s, F.idx[s]) = Some(IndexOfValue(s, t[1]))

\* C1: right after a construction or a whole-attribute assignment of an
\* indexed table, the derived index of that table is present iff the table
\* is present and non-empty, and is the index built from the assigned value.
C1_IndexFollowsAssignment ==
    (last.op \in {"construct", "assign", "reassign"} /\ feed[last.n].exists) =>
        \A s \in IndexedSlots :
            (last.op = "construct" \/ s = last.s) => IndexConsistent(feed[last.n], heap, s)

\* C2: right after a reassignment of an indexed table attribute to the object
\* it already holds, the derived index is consistent with the current
\* contents of the table.
C2_ReassignRefreshes ==
    (last.op = "reassign" /\ last.s \in IndexedSlots) =>
        IndexConsistent(feed[last.n], heap, last.s)

\* C2, first half: an in-place mutation of an indexed table leaves the
\* derived index of that table, as a caller observes it, as it was.
C2_MutationKeepsIndex ==
    [][(last'.op = "mutate" /\ last'.s \in IndexedSlots) =>
         IndexView(heap', last'.s, feed'[last'.n].idx[last'.s])
             = IndexView(heap, last'.s, feed[last'.n].idx[last'.s])]_vars

\* C3: once g is the copy of f, no operation on one of the two feeds changes
\* anything a caller can observe of the other: its tables, its dist_units,
\* its derived indexes.
C3_CopyIndependent ==
    [][\A n \in FeedNames :
         (feed["f"].exists /\ feed["g"].exists /\ last'.n # n) =>
             FeedView(feed'[n], heap') = FeedView(feed[n], heap)]_vars

\* C3 witness: g, a copy of f, was mutated in place and now differs from f
C3_Witness ==
    /\ feed["f"].exists /\ feed["g"].exists
    /\ last.op = "mutate" /\ last.n = "g"
    /\ TableView(heap, feed["g"].tab[last.s]) # TableView(heap, feed["f"].tab[last.s])
    /\ feed["f"].tab[last.s] # NoObj

\* C6: dist_units of a constructed Feed is always an allowed unit, a rejected
\* dist_units stores nothing, and no table assignment is rejected.
C6_OnlyDistUnitsRejected ==
    [][/\ \A n \in FeedNames : feed'[n].exists => feed'[n].dist_units \in DIST_UNITS
       /\ (last'.op = "assign_dist_units" /\ last'.err # "none") =>
              (feed' = feed /\ heap' = heap)
       /\ (last'.op = "construct" /\ last'.err # "none") =>
              (~feed'["f"].exists /\ heap' = heap)
       /\ last'.op \in {"assign", "reassign"} => last'.err = "none"]_vars

-----------------------------------------------------------------------------
(* Claims about equality *)

Present(F, s) == F.tab[s] # NoObj

\* Row i of table t as a mapping from column name to cell
RowFn(t, i) == [c \in Range(t.cols) |-> t.rows[i][IndexOf(t.cols, c)]]

\* Same set of columns and same multiset of rows
SameRowBag(t, u) ==
    /\ Range(t.cols) = Range(u.cols)
    /\ Len(t.rows) = Len(u.rows)
    /\ \A i \in 1..Len(t.rows) :
           Cardinality({j \in 1..Len(t.rows) : RowFn(t, j) = RowFn(t, i)})
               = Cardinality({j \in 1..Len(u.rows) : RowFn(u, j) = RowFn(t, i)})

\* C4: when a table slot is present in one feed and absent in the other,
\* f == g and g == f both return False.
C4_PresenceMismatchIsFalse ==
    (res # NoRes /\ \E s \in Slots : Present(feed["f"], s) # Present(feed["g"], s)) =>
        (res.fg = "False" /\ res.gf = "False")

-----------------------------------------------------------------------------
(* Claims about writing and reading *)

ColumnCells(t, c) == {Column(t, c)[i] : i \in 1..Len(t.rows)}

\* The values of column c of table t come back from the text as they are
ColumnSurvives(t, c, ndigits) ==
    LET cells == ColumnCells(t, c) IN
    IF c \in STR_COLS
    THEN \A x \in cells : x.k = "nan" \/ (x.k = "str" /\ Len(x.s) > 0)
    ELSE IF c \in INT_COLS
    THEN \/ \A x \in cells : x.k = "int" /\ x.v # -1
         \/ /\ \A x \in cells : x.k \in {"float", "nan"}
            /\ \E x \in cells : x.k = "nan"
            /\ \A x \in cells :
                   x.k = "float" => (x.v % Pow10(Decimals) = 0 /\ x.v # -Pow10(Decimals))
    ELSE \/ \A x \in cells : x.k = "int"
         \/ /\ \A x \in cells : x.k \in {"float", "nan"}
            /\ ndigits >= 1
            /\ \A x \in cells : x.k = "float" => x.v % Pow10(Decimals - ndigits) = 0

\* Every present table of F is non-empty, its column names carry no
\* surrounding whitespace and its values survive the text format
Survives(F, h, ndigits) ==
    \A s \in Slots :
        Present(F, s) =>
            /\ ~Empty(h[F.tab[s]])
            /\ \A c \in Range(h[F.tab[s]].cols) :
                   StripName(c) = c /\ ColumnSurvives(h[F.tab[s]], c, ndigits)

\* The destination is an archive or a directory, and holds no table file of
\* a slot that F lacks
NoStaleTables(F, node) ==
    /\ node.kind \in {"zip", "dir"}
    /\ \A s \in Slots : Present(F, s) \/ TableFile(s) \notin DOMAIN node.files

RoundTripHolds ==
    /\ call.err = "none"
    /\ FeedEq(feed["f"], feed["g"], heap) = "True"
    /\ FeedEq(feed["g"], feed["f"], heap) = "True"
    /\ \A s \in Slots : Present(feed["f"], s) = Present(feed["g"], s)

Events(log) == {log[i].ev : i \in DOMAIN log}

\* C8: after a call of the loader on a file input, whether it returns or
\* raises, no scratch directory made during the call is left on the disk.
C8_ScratchCleaned ==
    call.op = "read" =>
        \A i \in DOMAIN call.log :
            call.log[i].ev = "mkdtemp" => call.log[i].t \notin DOMAIN scratch

\* C9: when the input names an existing local path, read_feed makes no
\* network request, even if the input is also a URL; a fetch is made only
\* after the local check failed and the probe reported success.
C9_LocalFirst ==
    call.op = "read" =>
        /\ Exists(fs[call.path]) => Events(call.log) \cap {"head", "get"} = {}
        /\ \A i \in DOMAIN call.log :
               call.log[i].ev = "get" =>
                   /\ i = 3
                   /\ call.log[1].ev = "exists"
                   /\ call.log[2].ev = "head"
                   /\ ~Exists(fs[call.path])
                   /\ call.head = "ok"

\* C9 witness: an input that is a URL and names an existing archive was
\* loaded from the disk
C9_Witness ==
    /\ call.op = "read"
    /\ IsUrl(call.path) /\ Exists(fs[call.path])
    /\ call.head = "ok"
    /\ call.err = "none"
    /\ feed["f"].exists /\ Present(feed["f"], "stops")
    /\ "mkdtemp" \in Events(call.log)

\* C10: when the input names no local path and the probe does not report
\* success, read_feed ends with the location error and nothing else, after
\* both the local check and the probe were made.
C10_LocationError ==
    (/\ call.op = "read"
     /\ ~Exists(fs[call.path])
     /\ call.head # "ok") =>
        /\ call.err = "LocationError"
        /\ call.log = <<[ev |-> "exists", t |-> 0], [ev |-> "head", t |-> 0]>>

\* An entry that is a directory, has size zero, lacks the .txt suffix or has
\* a stem that is no table name
Skipped(files, name) ==
    \/ files[name].fmt \in {"dir", "empty"}
    \/ name[2] # ".txt"
    \/ name[1] \notin Slots

\* C11: a loaded Feed has every table slot, and an entry of the bundle that
\* is a directory, has size zero, lacks the .txt suffix or has a stem that is
\* no table name has no effect: the call ends as it does on the bundle
\* without that entry, with the same Feed.
C11_SkippedEntries ==
    (call.op = "read" /\ Exists(fs[call.path])) =>
        /\ call.err = "none" => DOMAIN feed["f"].tab = Slots
        /\ \A name \in DOMAIN fs[call.path].files :
               Skipped(fs[call.path].files, name) =>
                   LET node == [fs[call.path] EXCEPT !.files = Without(@, name)]
                       r == ReadFeedFromNode(node, <<>>, <<>>, call.du)
                   IN  /\ r.err = call.err
                       /\ call.err = "none" => FeedView(r.F, r.h) = FeedView(feed["f"], heap)

\* C11 witness: a directory with a table file and entries of all four skipped
\* kinds was loaded
C11_Witness ==
    /\ call.op = "read" /\ call.err = "none"
    /\ fs[call.path] = DirNode(GoodFiles @@ SkippedFiles)
    /\ Present(feed["f"], "stops")
    /\ \A s \in Slots \ {"stops"} : ~Present(feed["f"], s)

\* A table file with a header and no data row
HeaderOnly(files, name) ==
    /\ IsTableFile(files, name)
    /\ Len(files[name].header) > 0
    /\ Len(files[name].lines) = 0

\* C12: a table file with only a header row leaves its slot absent; a Feed
\* made by the loader holds no table without rows or without columns, and a
\* derived index of it is present exactly when its table is present.
C12_NoEmptyTableLoaded ==
    (call.op = "read" /\ call.err = "none") =>
        /\ \A s \in Slots :
               Present(feed["f"], s) =>
                   /\ Len(heap[feed["f"].tab[s]].rows) > 0
                   /\ Len(heap[feed["f"].tab[s]].cols) > 0
        /\ \A s \in IndexedSlots : (feed["f"].idx[s] # None) <=> Present(feed["f"], s)
        /\ Exists(fs[call.path]) =>
               \A s \in Slots :
                   (/\ TableFile(s) \in DOMAIN fs[call.path].files
                    /\ HeaderOnly(fs[call.path].files, TableFile(s))) =>
                       ~Present(feed["f"], s)

\* C12 witness: an archive with a header-only trips.txt and a calendar.txt
\* with a row was loaded; trips is absent, calendar and its index are present
C12_Witness ==
    /\ call.op = "read" /\ call.err = "none"
    /\ fs[call.path] = ZipNode(IndexedFiles)
    /\ HeaderOnly(fs[call.path].files, TableFile("trips"))
    /\ ~Present(feed["f"], "trips") /\ feed["f"].idx["trips"] = None
    /\ Present(feed["f"], "calendar") /\ feed["f"].idx["calendar"] # None

\* The files of a bundle, the entry "./" of an archive aside
FlatFiles(node) == [n \in DOMAIN node.files \ {RootEntry} |-> node.files[n]]

IsBundle(node) == node.kind \in {"dir", "zip"}

\* C13: for an existing directory or archive, list_feed returns one row
\* (file_name, file_size) for every entry; a directory and an archive with
\* the same files give the same rows; a path that does not exist gives an
\* error and no listing.
C13_Listing ==
    call.op = "list" =>
        /\ ~Exists(fs[call.path]) => (call.err = "PathError" /\ call.log = <<>>)
        /\ IsBundle(fs[call.path]) =>
               /\ call.err = "none"
               /\ Len(call.log) = Cardinality(DOMAIN FlatFiles(fs[call.path]))
               /\ Range(call.log) =
                      {ListRow(fs[call.path].files, n) : n \in DOMAIN FlatFiles(fs[call.path])}
               /\ \A q \in Paths :
                      (IsBundle(fs[q]) /\ FlatFiles(fs[q]) = FlatFiles(fs[call.path])) =>
                          \A order \in Orders(DOMAIN fs[q].files) :
                              Range(ListFeed(fs, q, order).rows) = Range(call.log)

\* C13 witness: an archive that holds the entry "./" was listed, and a
\* directory with the same two files is on the disk
C13_Witness ==
    /\ call.op = "list" /\ call.err = "none"
    /\ call.path = OutZip
    /\ fs[OutZip] = ZipNode(GoodFiles @@ RootFiles)
    /\ fs[OutDir] = DirNode(GoodFiles)
    /\ Len(call.log) = 2

-----------------------------------------------------------------------------
(* Claims about copy, write and description *)

\* C14: for any Feed f, also one whose index is stale after an in-place
\* mutation, every derived index of g = f.copy() equals in value the derived
\* index of f, whatever the order in which copy visits the attributes.
C14_CopyKeepsIndexes ==
    (last.op = "copy" /\ last.err = "none") =>
        \A s \in IndexedSlots :
            IndexView(heap, s, feed["g"].idx[s]) = IndexView(heap, s, feed["f"].idx[s])

\* C15: for every reachable Feed f, f.copy() completes without error, f and
\* the copy are equal in both orders, and the same table slots are present.
C15_CopyIsEqual ==
    last.op = "copy" =>
        /\ last.err = "none"
        /\ FeedEq(feed["f"], feed["g"], heap) = "True"
        /\ FeedEq(feed["g"], feed["f"], heap) = "True"
        /\ \A s \in Slots : Present(feed["f"], s) = Present(feed["g"], s)

\* The cells of the integer-flagged column of trips, and their texts in the
\* file the last write made
IntColumn == Column(heap[feed["f"].tab["trips"]], "direction_id")

WrittenIntColumn ==
    LET file == fs[call.path].files[TableFile("trips")]
        j == IndexOf(file.header, "direction_id")
    IN  [i \in 1..Len(file.lines) |-> file.lines[i][j]]

\* C16: in an integer-flagged column, write gives the empty text exactly to
\* the missing cells, and gives every integer v, negative ones and the
\* sentinel value included, the decimal text of v.
C16_IntegerColumnText ==
    (call.op = "write" /\ call.err = "none" /\ Present(feed["f"], "trips")) =>
        \A i \in DOMAIN IntColumn :
            /\ (WrittenIntColumn[i] = <<>>) <=> (IntColumn[i].k = "nan")
            /\ IntColumn[i].k = "int" => WrittenIntColumn[i] = IntText(IntColumn[i].v)

\* C17: a call of write, whether it returns or raises, changes no table, no
\* derived index and not the dist_units of the Feed.
C17_WriteKeepsFeed ==
    [][call'.op = "write" => FeedView(feed'["f"], heap') = FeedView(feed["f"], heap)]_vars

\* C17 witness: a feed whose integer-flagged column has a gap, so that the
\* column was coerced for the output, has been written
C17_Witness ==
    /\ call.op = "write" /\ call.err = "none"
    /\ Present(feed["f"], "trips")
    /\ \E i \in DOMAIN IntColumn : IntColumn[i].k = "nan"
    /\ \E i \in DOMAIN IntColumn : WrittenIntColumn[i] = <<>>

\* C18: an assignment of a table changes that table slot and, for an indexed
\* table, its own derived index, and nothing else: not dist_units, no other
\* table, no other derived index.
C18_AssignmentFrame ==
    [][last'.op \in {"assign", "reassign"} =>
         /\ feed'[last'.n].dist_units = feed[last'.n].dist_units
         /\ \A s \in Slots \ {last'.s} :
                TableView(heap', feed'[last'.n].tab[s]) = TableView(heap, feed[last'.n].tab[s])
         /\ \A s \in IndexedSlots \ {last'.s} :
                IndexView(heap', s, feed'[last'.n].idx[s])
                    = IndexView(heap, s, feed[last'.n].idx[s])]_vars

\* C18 witness: stops was assigned on a feed that holds trips and its index
C18_Witness ==
    /\ last.op = "assign" /\ last.s = "stops" /\ last.err = "none"
    /\ Present(feed[last.n], "stops")
    /\ Present(feed[last.n], "trips")
    /\ feed[last.n].idx["trips"] # None

\* C19: for every Feed, also the one with no table, str(feed) completes
\* without raising and has an entry for every table name and for dist_units;
\* the entry of an absent table is null, every other table is summarized,
\* and no attribute of the Feed changes.
C19_DescribeCompletes ==
    [][call'.op = "describe" =>
         /\ call'.err = "none"
         /\ DOMAIN call'.log.tab = Slots
         /\ call'.log.dist_units = feed["f"].dist_units
         /\ \A s \in Slots :
                call'.log.tab[s] =
                    IF Present(feed["f"], s) THEN Some(head(heap[feed["f"].tab[s]])) ELSE None
         /\ FeedView(feed'["f"], heap') = FeedView(feed["f"], heap)]_vars

\* C19 witness: a feed with trips absent and stops present was described,
\* the entry of trips is null and the one of stops is not
C19_Witness ==
    /\ call.op = "describe" /\ call.err = "none"
    /\ ~Present(feed["f"], "trips") /\ call.log.tab["trips"] = None
    /\ Present(feed["f"], "stops") /\ call.log.tab["stops"] # None

====
